---- MODULE Spec2Model ----
(***************************************************************************)
(* TQAlert (src/tools/TQAlert.py): the trading-feed staleness monitor.     *)
(* The monitor process (main / monitor_symbols) is modelled as a state     *)
(* machine together with its collaborators: the wall clock, the            *)
(* configuration store, and the marker files under /tmp/TQAlert and        *)
(* /tmp/lastTQ that the feed writers and the CGI scripts write.            *)
(***************************************************************************)
EXTENDS Integers, Sequences, FiniteSets, TLC

(***************************************************************************)
(* Program constants.                                                      *)
(***************************************************************************)
SLEEP_INTERVAL == 5

MIN_ALERT_INTERVAL == 30

RESTART_COOLDOWN == 30

DAY_SECONDS == 86400

(***************************************************************************)
(* Bounds of the model.                                                    *)
(***************************************************************************)
\* seconds of wall-clock time a behaviour covers after the process start
Horizon == 35

\* how many times main() enters monitor_symbols()
MaxRuns == 2

\* how many writes the collaborators (feed, CGI scripts) perform
MaxEnvEvents == 2

(***************************************************************************)
(* Values.                                                                 *)
(***************************************************************************)
\* what a marker file that does not exist (or does not parse) is read as
Absent == 0 - 1

Symbols == {"A", "B"}

\* 2024-01-01 00:00:00 UTC, a Monday, in epoch seconds
MondayMidnight == 19723 * DAY_SECONDS

\* the instants at which the process may be started
Starts == { MondayMidnight + 9 * 3600 + 30 * 60 + 55,
            MondayMidnight + 23 * 3600 + 59 * 60 + 55 }

\* how long one pass of the loop takes: the sleep, plus the time the
\* blocking alert commands took
Delays == { SLEEP_INTERVAL, MIN_ALERT_INTERVAL }

Max(S) == CHOOSE x \in S : \A y \in S : y <= x

Elapsed(c) == c - Max({ s \in Starts : s <= c })

(***************************************************************************)
(* The wall clock as datetime reports it (UTC).                            *)
(***************************************************************************)
\* int(datetime.now().strftime('%H%M%S'))
TimeOfDay(ts) ==
    LET s == ts % DAY_SECONDS
    IN  (s \div 3600) * 10000 + ((s \div 60) % 60) * 100 + (s % 60)

\* datetime.today().isoweekday(): 1970-01-01 was a Thursday (4)
IsoWeekday(ts) == (((ts \div DAY_SECONDS) + 3) % 7) + 1

RECURSIVE Pow10(_)
Pow10(n) == IF n <= 0 THEN 1 ELSE 10 * Pow10(n - 1)

\* faulty variant: the bitmap counted from the wrong end (Monday = 0000001)
get_weekday_bitmap_reversed(weekday) == Pow10(weekday - 1)

get_weekday_bitmap(weekday) == Pow10(7 - weekday)

\* faulty variant: a window whose end is not after its begin is taken to
\* run past midnight
is_within_time_range_overnight(current_time, begin_time, end_time) ==
    IF begin_time < end_time
    THEN begin_time <= current_time /\ current_time < end_time
    ELSE begin_time <= current_time \/ current_time < end_time

\* faulty variant: the end of the window is taken as inside it
is_within_time_range_end_inclusive(current_time, begin_time, end_time) ==
    begin_time <= current_time /\ current_time <= end_time

is_within_time_range(current_time, begin_time, end_time) ==
    begin_time <= current_time /\ current_time < end_time

(***************************************************************************)
(* Decimal formatting and parsing, as f"{n:02d}" and int() do them.        *)
(***************************************************************************)
RECURSIVE DigitsOf(_)
DigitsOf(n) == IF n < 10 THEN <<n>> ELSE Append(DigitsOf(n \div 10), n % 10)

\* f"{n:02d}": at least two digits, zero padded
Format02d(n) == IF n < 10 THEN <<0, n>> ELSE DigitsOf(n)

RECURSIVE ParseInt(_)
ParseInt(ds) ==
    IF Len(ds) = 0 THEN 0
    ELSE 10 * ParseInt(SubSeq(ds, 1, Len(ds) - 1)) + ds[Len(ds)]

(***************************************************************************)
(* TimeRule repository: _process_time_rules.                               *)
(* A rule of the repository is [form, params, BegOffset]: form "list" is   *)
(* the raw JSON tuple as config['TimeRule'] holds it, form "dict" the      *)
(* converted rule_dict.                                                    *)
(***************************************************************************)
RawRule(tuple) == [form |-> "list", params |-> tuple, BegOffset |-> Absent]

WeekVal(rule)  == rule.params[1]
Beg(rule)      == rule.params[2]
End(rule)      == rule.params[3]
TickSec(rule)  == rule.params[4]
QuoteSec(rule) == rule.params[5]

MinInterval(tick, quote) ==
    LET m0 == DAY_SECONDS
        m1 == IF tick > 0 /\ tick < m0 THEN tick ELSE m0
        m2 == IF quote > 0 /\ quote < m1 THEN quote ELSE m1
    IN  IF m2 = DAY_SECONDS THEN 0 ELSE m2

BegOffsetOf(begin_time, tick, quote) ==
    LET total_seconds == MinInterval(tick, quote)
                         + (begin_time \div 10000) * 3600
                         + ((begin_time \div 100) % 100) * 60
                         + (begin_time % 100)
        hours   == total_seconds \div 3600
        minutes == (total_seconds \div 60) % 60
        seconds == total_seconds % 60
    IN  ParseInt(Format02d(hours) \o Format02d(minutes) \o Format02d(seconds))

\* rule_params[0..4] must exist
Malformed(tuple) == Len(tuple) < 5

RuleDict(tuple) ==
    [form |-> "dict", params |-> SubSeq(tuple, 1, 5),
     BegOffset |-> BegOffsetOf(tuple[2], tuple[4], tuple[5])]

\* the repository is the dict time_rules in insertion order: a sequence of
\* [Symbol, rules]
RulePositions(tr) ==
    UNION { { <<i, j>> : j \in 1..Len(tr[i].rules) } : i \in 1..Len(tr) }

Precedes(p, q) == p[1] < q[1] \/ (p[1] = q[1] /\ p[2] < q[2])

\* the rule at which the conversion raises (IndexError), if any
FirstMalformed(tr) ==
    LET bad == { p \in RulePositions(tr) : Malformed(tr[p[1]].rules[p[2]].params) }
    IN  IF bad = {} THEN <<0, 0>>
        ELSE CHOOSE p \in bad : \A q \in bad : p = q \/ Precedes(p, q)

\* in place: the rules before the one that raises are already converted
process_time_rules(tr) ==
    LET stop == FirstMalformed(tr)
    IN  [raised |-> stop # <<0, 0>>,
         time_rules |->
            [i \in 1..Len(tr) |->
                [Symbol |-> tr[i].Symbol,
                 rules  |-> [j \in 1..Len(tr[i].rules) |->
                               IF stop = <<0, 0>> \/ Precedes(<<i, j>>, stop)
                               THEN RuleDict(tr[i].rules[j].params)
                               ELSE tr[i].rules[j]]]]]

(***************************************************************************)
(* The configuration store (the conf table row 'tqconf') and               *)
(* read_config_from_cassandra.                                             *)
(***************************************************************************)
Config(tr, hasCmds, cmds) ==
    [conn |-> TRUE, rows |-> 1, json_ok |-> TRUE,
     hasTimeRule |-> TRUE, TimeRule |-> tr,
     hasAlertCMD |-> hasCmds, AlertCMD |-> cmds]

CmdMail == <<"mail ", "{HEADER}", " ", "{BODY}">>
CmdSms  == <<" ", "#", "sms ", "{HEADER}">>
CmdPage == <<"page ", "{BODY}", " ", "{HEADER}", " ", "{BODY}", "{HEADER}">>

TimeRuleMain ==
    << [Symbol |-> "A", rules |-> << <<1111111, 93000, 134500, 60, 0>>,
                                     <<1111111, 93000, 134500, 0, 30>> >>],
       [Symbol |-> "B", rules |-> << <<1000000, 0, 235959, 0, 0>>,
                                     <<100000, 0, 235959, 30, 30>> >>] >>

TimeRuleEdited ==
    << [Symbol |-> "B", rules |-> << <<1111111, 93000, 93100, 0, 30>> >>] >>

TimeRuleBadTuple ==
    << [Symbol |-> "A", rules |-> << <<1111111, 93000, 134500, 60, 0>>,
                                     <<1111111, 93000, 134500, 60>> >>] >>

\* windows that End does not close after BegOffset: 22:00 to 06:00, a
\* threshold that moves BegOffset onto End, and one that moves it beyond
TimeRuleNight ==
    << [Symbol |-> "A", rules |-> << <<1111111, 220000, 60000, 30, 30>>,
                                     <<1111111, 93025, 93055, 30, 0>> >>],
       [Symbol |-> "B", rules |-> << <<1111111, 93030, 93100, 60, 0>> >>] >>

StoreMain     == Config(TimeRuleMain, TRUE, <<CmdMail, CmdSms>>)
StoreNight    == Config(TimeRuleNight, TRUE, <<CmdMail>>)

\* a rule of Tuesdays only, for the last minute of the day
TimeRuleLate ==
    << [Symbol |-> "A", rules |-> << <<100000, 235900, 240000, 30, 0>> >>] >>

StoreLate     == Config(TimeRuleLate, TRUE, <<CmdMail>>)
StoreEdited   == Config(TimeRuleEdited, TRUE, <<CmdSms, CmdMail, CmdPage>>)
StoreNoCmds   == Config(TimeRuleEdited, FALSE, <<>>)
StoreEmptyCmds == Config(TimeRuleMain, TRUE, <<>>)
StoreBadTuple == Config(TimeRuleBadTuple, TRUE, <<CmdMail>>)
StoreNoRules  == [StoreMain EXCEPT !.hasTimeRule = FALSE]
StoreBadJson  == [StoreMain EXCEPT !.json_ok = FALSE]
StoreNoRow    == [StoreMain EXCEPT !.rows = 0]
StoreDown     == [StoreMain EXCEPT !.conn = FALSE]

Stores == { StoreMain, StoreEdited, StoreNoCmds, StoreEmptyCmds, StoreBadTuple,
            StoreNoRules, StoreBadJson, StoreNoRow, StoreDown }

RawRules(tr) ==
    [i \in 1..Len(tr) |->
        [Symbol |-> tr[i].Symbol,
         rules  |-> [j \in 1..Len(tr[i].rules) |-> RawRule(tr[i].rules[j])]]]

\* what time_rules and alert_commands hold when the function returns; it
\* never raises (except Exception)
read_config_from_cassandra(st, old_rules, old_cmds) ==
    LET cleared == [ok |-> FALSE, time_rules |-> <<>>, alert_commands |-> <<>>]
    IN  IF ~st.conn THEN cleared                \* Cluster() / connect raises
        ELSE IF st.rows = 0 THEN cleared        \* 'No configuration data found'
        ELSE IF ~st.json_ok THEN cleared        \* json.loads raises
        ELSE IF ~st.hasTimeRule THEN cleared    \* KeyError 'TimeRule'
        ELSE IF ~st.hasAlertCMD                 \* KeyError 'AlertCMD'
             THEN [cleared EXCEPT !.time_rules = RawRules(st.TimeRule)]
        ELSE LET done == process_time_rules(RawRules(st.TimeRule))
             IN  [ok |-> ~done.raised, time_rules |-> done.time_rules,
                  alert_commands |-> st.AlertCMD]

\* read_config_from_cassandra tabulated over the rows the store can hold:
\* both arguments are cleared before the row is read, so that the result
\* depends on the row alone
Loaded ==
    [st \in Stores \cup {StoreNight, StoreLate} |-> read_config_from_cassandra(st, <<>>, <<>>)]

(***************************************************************************)
(* Rule matcher: get_matching_rules.                                       *)
(***************************************************************************)
\* int(rule['WeekVal'] / bitmap) % 10 == 1
MatchesDay(rule, bitmap) == (WeekVal(rule) \div bitmap) % 10 = 1

RECURSIVE MatchingOfSymbol(_, _, _, _)
MatchingOfSymbol(symbol, rules, bitmap, j) ==
    IF j > Len(rules) THEN <<>>
    ELSE (IF MatchesDay(rules[j], bitmap)
          THEN << [Symbol |-> symbol, RuleIdx |-> j - 1, Rule |-> rules[j]] >>
          ELSE <<>>)
         \o MatchingOfSymbol(symbol, rules, bitmap, j + 1)

RECURSIVE MatchingFrom(_, _, _)
MatchingFrom(tr, bitmap, i) ==
    IF i > Len(tr) THEN <<>>
    ELSE MatchingOfSymbol(tr[i].Symbol, tr[i].rules, bitmap, 1)
         \o MatchingFrom(tr, bitmap, i + 1)

\* rule['WeekVal'] raises TypeError on a rule that is still a list
HasRawRule(tr) == \E p \in RulePositions(tr) : tr[p[1]].rules[p[2]].form = "list"

get_matching_rules(tr, bitmap) ==
    IF HasRawRule(tr) THEN [raised |-> TRUE, rules |-> <<>>]
    ELSE [raised |-> FALSE, rules |-> MatchingFrom(tr, bitmap, 1)]

(***************************************************************************)
(* Freshness probe, staleness evaluator, throttle, notifier.               *)
(***************************************************************************)
\* the marker file's timestamp, 0 when the file is absent or unreadable
read_last_timestamp(markers, symbol) ==
    IF markers[symbol] = Absent THEN 0 ELSE markers[symbol]

NoAlert == [header |-> "", body |-> <<>>]

\* faulty variant: the thresholds are compared without the '> 0' tests
check_symbol_alerts_unguarded(rule, current_time, lastQ, lastT) ==
    IF current_time > read_last_timestamp(lastT, rule.Symbol) + TickSec(rule.Rule)
    THEN [header |-> "No Tick Alert", body |-> <<rule.Symbol, " has no tick">>]
    ELSE IF current_time > read_last_timestamp(lastQ, rule.Symbol) + QuoteSec(rule.Rule)
    THEN [header |-> "No Quote Alert", body |-> <<rule.Symbol, " has no quote">>]
    ELSE NoAlert

\* faulty variant: the quote check runs last and overwrites the tick alert
check_symbol_alerts_quote_last(rule, current_time, lastQ, lastT) ==
    LET symbol == rule.Symbol
        rc     == rule.Rule
        tick   == IF TickSec(rc) > 0
                     /\ current_time > read_last_timestamp(lastT, symbol) + TickSec(rc)
                  THEN [header |-> "No Tick Alert",
                        body |-> <<symbol, " has no tick for ",
                                   ToString(TickSec(rc)), " seconds!">>]
                  ELSE NoAlert
    IN  IF QuoteSec(rc) > 0
           /\ current_time > read_last_timestamp(lastQ, symbol) + QuoteSec(rc)
        THEN [header |-> "No Quote Alert",
              body |-> <<symbol, " has no quote for ",
                         ToString(QuoteSec(rc)), " seconds!">>]
        ELSE tick

\* faulty variant: a probe that returns 0 (no marker) suppresses the check
check_symbol_alerts_skip_absent(rule, current_time, lastQ, lastT) ==
    LET symbol == rule.Symbol
        rc     == rule.Rule
        tickAt == read_last_timestamp(lastT, symbol)
        quoteAt == read_last_timestamp(lastQ, symbol)
    IN  IF TickSec(rc) > 0 /\ tickAt > 0 /\ current_time > tickAt + TickSec(rc)
        THEN [header |-> "No Tick Alert",
              body |-> <<symbol, " has no tick for ",
                         ToString(TickSec(rc)), " seconds!">>]
        ELSE IF QuoteSec(rc) > 0 /\ quoteAt > 0 /\ current_time > quoteAt + QuoteSec(rc)
        THEN [header |-> "No Quote Alert",
              body |-> <<symbol, " has no quote for ",
                         ToString(QuoteSec(rc)), " seconds!">>]
        ELSE NoAlert

\* (header, body); header "" when no alert is needed. The tick check runs
\* after the quote check and overwrites its result.
check_symbol_alerts(rule, current_time, lastQ, lastT) ==
    LET symbol == rule.Symbol
        rc     == rule.Rule
        quote  == IF QuoteSec(rc) > 0
                     /\ current_time > read_last_timestamp(lastQ, symbol) + QuoteSec(rc)
                  THEN [header |-> "No Quote Alert",
                        body |-> <<symbol, " has no quote for ",
                                   ToString(QuoteSec(rc)), " seconds!">>]
                  ELSE NoAlert
    IN  IF TickSec(rc) > 0
           /\ current_time > read_last_timestamp(lastT, symbol) + TickSec(rc)
        THEN [header |-> "No Tick Alert",
              body |-> <<symbol, " has no tick for ",
                         ToString(TickSec(rc)), " seconds!">>]
        ELSE quote

\* faulty variant: the throttle test is dropped, only the skip file mutes
should_skip_symbol_no_throttle(symbol, last_alert_times, current_time, skip_files) ==
    symbol \in skip_files

\* faulty variant: the skip file is not looked at
should_skip_symbol_no_mute(symbol, last_alert_times, current_time, skip_files) ==
    /\ symbol \in DOMAIN last_alert_times
    /\ current_time < last_alert_times[symbol] + MIN_ALERT_INTERVAL

\* faulty variant: the throttle still holds at the end of the interval
should_skip_symbol_throttle_inclusive(symbol, last_alert_times, current_time, skip_files) ==
    \/ symbol \in skip_files
    \/ /\ symbol \in DOMAIN last_alert_times
       /\ current_time <= last_alert_times[symbol] + MIN_ALERT_INTERVAL

should_skip_symbol(symbol, last_alert_times, current_time, skip_files) ==
    \/ symbol \in skip_files
    \/ /\ symbol \in DOMAIN last_alert_times
       /\ current_time < last_alert_times[symbol] + MIN_ALERT_INTERVAL

\* faulty variant: the alert time is not recorded before the commands run
RecordAlertSkipped(last_alert_times, symbol, current_time) == last_alert_times

\* last_alert_times[symbol] = current_timestamp
RecordAlert(last_alert_times, symbol, current_time) ==
    [s \in DOMAIN last_alert_times \cup {symbol} |->
        IF s = symbol THEN current_time ELSE last_alert_times[s]]

\* command_template.replace('{HEADER}', header).replace('{BODY}', body)
RECURSIVE Substitute(_, _, _)
Substitute(template, header, body) ==
    IF Len(template) = 0 THEN <<>>
    ELSE (IF Head(template) = "{HEADER}" THEN <<header>>
          ELSE IF Head(template) = "{BODY}" THEN body
          ELSE <<Head(template)>>)
         \o Substitute(Tail(template), header, body)

\* final_command.strip().startswith('#')
RECURSIVE StartsWithHash(_)
StartsWithHash(cmd) ==
    IF Len(cmd) = 0 THEN FALSE
    ELSE IF Head(cmd) = " " THEN StartsWithHash(Tail(cmd))
    ELSE Head(cmd) = "#"

\* faulty variant: the '#' is looked for without stripping the blanks
execute_alert_command_unstripped(command_template, header, body) ==
    LET final_command == Substitute(command_template, header, body)
    IN  [command |-> final_command,
         ran |-> ~(Len(final_command) > 0 /\ Head(final_command) = "#")]

\* what the call does: the substituted command, and whether a process ran
execute_alert_command(command_template, header, body) ==
    LET final_command == Substitute(command_template, header, body)
    IN  [command |-> final_command, ran |-> ~StartsWithHash(final_command)]

\* how the call ends: not run, or subprocess.call returns 0, returns another
\* exit status, or raises (caught and logged by the function)
CallOutcomes(call) ==
    IF call.ran THEN {"zero", "nonzero", "raised"} ELSE {"skipped"}

(***************************************************************************)
(* Configuration values as eConf.py stores them: strings are sequences of  *)
(* characters, str.replace is done left to right on them.                  *)
(***************************************************************************)
\* s[from..]
DropFirst(s, n) == SubSeq(s, n + 1, Len(s))

\* s.replace(old, new): every occurrence of old, found left to right and
\* not overlapping, becomes new
RECURSIVE Replace(_, _, _)
Replace(s, old, new) ==
    IF Len(s) < Len(old) THEN s
    ELSE IF SubSeq(s, 1, Len(old)) = old
         THEN new \o Replace(DropFirst(s, Len(old)), old, new)
         ELSE <<Head(s)>> \o Replace(Tail(s), old, new)

Backslash   == <<"\\">>
DoubleQuote == <<"\"">>
SingleQuote == <<"'">>

EntityBsol == <<"&", "b", "s", "o", "l", ";">>
EntityQuot == <<"&", "q", "u", "o", "t", ";">>
EntityApos == <<"&", "a", "p", "o", "s", ";">>

\* eConf.py, before the value goes into the UPDATE statement
escape_config_value(value) ==
    Replace(Replace(Replace(value, Backslash, EntityBsol),
                    DoubleQuote, EntityQuot),
            SingleQuote, EntityApos)

\* eConf.py, on the value a QUERY read
unescape_config_value(value) ==
    Replace(Replace(Replace(value, EntityQuot, DoubleQuote),
                    EntityApos, SingleQuote),
            EntityBsol, Backslash)

\* TQAlert.py, on the row before json.loads
unescape_before_json(config_json) ==
    Replace(Replace(Replace(config_json, EntityQuot, DoubleQuote),
                    EntityApos, SingleQuote),
            EntityBsol, Backslash)

(***************************************************************************)
(* Skip files: the name doAction.py gives them and the name the monitor    *)
(* looks for. A path is the directory, the separator, the prefix and the   *)
(* characters of the symbol.                                               *)
(***************************************************************************)
Reverse(s) == [i \in 1..Len(s) |-> s[Len(s) + 1 - i]]

\* s.lstrip() where the white space is the blank
RECURSIVE StripLeft(_)
StripLeft(s) ==
    IF Len(s) > 0 /\ Head(s) = " " THEN StripLeft(Tail(s)) ELSE s

\* s.strip()
Strip(s) == Reverse(StripLeft(Reverse(StripLeft(s))))

\* s.split(c)
RECURSIVE Split(_, _)
Split(s, c) ==
    LET at == { i \in 1..Len(s) : s[i] = c }
    IN  IF at = {} THEN <<s>>
        ELSE LET i == CHOOSE i \in at : \A j \in at : i <= j
             IN  <<SubSeq(s, 1, i - 1)>> \o Split(DropFirst(s, i), c)

\* doAction.py: '/', '\' and '..' become '_' (NUL, CR and LF, which are
\* removed, are not among the characters drawn)
sanitize_symbol_params(params) ==
    Replace(Replace(Replace(params, <<"/">>, <<"_">>),
                    Backslash, <<"_">>),
            <<".", ".">>, <<"_">>)

RECURSIVE NonEmptyStripped(_)
NonEmptyStripped(parts) ==
    IF Len(parts) = 0 THEN <<>>
    ELSE (IF Len(Strip(Head(parts))) > 0 THEN <<Strip(Head(parts))>> ELSE <<>>)
         \o NonEmptyStripped(Tail(parts))

\* [sym.strip() for sym in sanitized_params.split(',') if sym.strip()]
symbol_list(params) == NonEmptyStripped(Split(sanitize_symbol_params(params), ","))

\* os.path.join(ALERT_BASE_DIR, f'{SKIP_FILE_PREFIX}{symbol}')
cgi_skip_file(symbol) == <<"/tmp/TQAlert", "/", "TQAlert.skip.">> \o symbol

\* f'{TEMP_DIR}/TQAlert.skip.{symbol}'
monitor_skip_file(symbol) == <<"/tmp/TQAlert", "/", "TQAlert.skip.">> \o symbol

\* the skip files after TQALERT_MUTE with these params
files_after_mute(files, params) ==
    files \cup { cgi_skip_file(symbol_list(params)[k]) :
                    k \in 1..Len(symbol_list(params)) }

\* the skip files after TQALERT_UNMUTE with these params; a file that is not
\* there is no error
files_after_unmute(files, params) ==
    files \ { cgi_skip_file(symbol_list(params)[k]) :
                 k \in 1..Len(symbol_list(params)) }

(***************************************************************************)
(* State.                                                                  *)
(***************************************************************************)
VARIABLES
    \* main() and the locals of monitor_symbols()
    pc,                     \* where the process is
    run,                    \* how many times monitor_symbols() was entered
    last_alert_times,       \* Alert State: symbol -> epoch of the last alert
    time_rules,             \* TimeRule repository
    alert_commands,         \* alert command templates
    last_check_weekday,
    matching_rules,         \* Active Rule Index
    loop_count,
    current_time,           \* HHMMSS of this iteration
    current_timestamp,      \* epoch seconds of this iteration
    current_weekday_bitmap,
    rule_ix,                \* position of the for loop over matching_rules
    cmd_ix,                 \* position of the for loop over alert_commands
    alert,                  \* (header, body) of the alert being dispatched
    \* collaborators
    clock,                  \* wall clock, epoch seconds
    store,                  \* the configuration row
    confchange,             \* TQAlert.confchange: timestamp, or Absent
    skip_files,             \* symbols with a TQAlert.skip.<symbol> file
    lastT,                  \* <symbol>.LastT: timestamp, or Absent
    lastQ,                  \* <symbol>.LastQ: timestamp, or Absent
    testcmd,                \* indices with a TQAlert.testcmd.<index> file
    events,                 \* writes and refusals of the collaborators so far
    \* history
    alertLog,               \* every alert recorded: [run, symbol, at, header]
    sent,                   \* execute_alert_command calls of the current alert
    exits,                  \* how each of these calls ended
    reloaded,               \* what the reload check of this iteration did
    lastEval,               \* what the latest rule evaluation saw and did
    \* process_test_commands
    test_ix,                \* position of the for loop over the test markers
    tests,                  \* test requests made, test commands run, and
                            \* the names requested since their last run
    \* inputs and result of a function applied on its own
    fin,
    fout

monVars == <<pc, run, last_alert_times, time_rules, alert_commands,
             last_check_weekday, matching_rules, loop_count, current_time,
             current_timestamp, current_weekday_bitmap, rule_ix, cmd_ix, alert>>

envVars == <<clock, store, confchange, skip_files, lastT, lastQ, testcmd, events>>

histVars == <<alertLog, sent, exits, reloaded, lastEval>>

funVars == <<fin, fout>>

testVars == <<test_ix, tests>>

vars == <<monVars, envVars, histVars, funVars, testVars>>

EmptyMap == [s \in {} |-> 0]

Idle == [op |-> "none"]

NoEval == [result |-> "none"]

NoTests == [requested |-> 0, executed |-> 0, unserved |-> {}]

TestNames == {0}

\* the (LastT, LastQ) timestamps the feed left before the process started:
\* no markers, an old tick with a recent quote, both recent
InitialMarkers(c0) == { <<Absent, Absent>>, <<c0 - 115, c0 - 5>>, <<c0 - 5, c0 - 5>> }

\* the process is started on a loadable configuration; the editor may
\* replace it before the first load
Init ==
    /\ pc = "start"
    /\ run = 0
    /\ last_alert_times = EmptyMap
    /\ time_rules = <<>>
    /\ alert_commands = <<>>
    /\ last_check_weekday = 0
    /\ matching_rules = <<>>
    /\ loop_count = 0
    /\ current_time = 0
    /\ current_timestamp = 0
    /\ current_weekday_bitmap = 0
    /\ rule_ix = 1
    /\ cmd_ix = 1
    /\ alert = NoAlert
    /\ clock \in Starts
    /\ store = StoreMain
    /\ confchange = Absent
    /\ skip_files = {}
    /\ \E m \in InitialMarkers(clock) :
          /\ lastT = [s \in Symbols |-> m[1]]
          /\ lastQ = [s \in Symbols |-> m[2]]
    /\ testcmd = {}
    /\ events = 0
    /\ alertLog = <<>>
    /\ sent = <<>>
    /\ exits = <<>>
    /\ reloaded = "no"
    /\ lastEval = NoEval
    /\ test_ix = 0
    /\ tests = NoTests
    /\ fin = Idle
    /\ fout = Idle

(***************************************************************************)
(* The monitor: main() and monitor_symbols().                              *)
(***************************************************************************)
\* monitor_symbols() is entered: fresh locals and the initial load
StartMonitor ==
    /\ pc = "start"
    /\ run < MaxRuns
    /\ LET cfg == Loaded[store]
       IN  /\ time_rules' = cfg.time_rules
           /\ alert_commands' = cfg.alert_commands
    /\ run' = run + 1
    /\ last_alert_times' = EmptyMap
    /\ last_check_weekday' = 0
    /\ matching_rules' = <<>>
    /\ loop_count' = 0
    /\ pc' = "poll"
    /\ UNCHANGED <<current_time, current_timestamp, current_weekday_bitmap,
                   rule_ix, cmd_ix, alert>>
    /\ UNCHANGED <<envVars, histVars, funVars, testVars>>

\* process_test_commands: the markers of existing commands are consumed
TestsConsumed(cmds, markers) == { i \in markers : i < Len(cmds) }

\* the time sample of the iteration
SampleTime ==
    /\ current_time' = TimeOfDay(clock)
    /\ current_timestamp' = clock
    /\ current_weekday_bitmap' = get_weekday_bitmap(IsoWeekday(clock))
    /\ pc' = "reload"

\* the for loop of process_test_commands from position `from`: at the next
\* marker of an existing command, the command is run with the test header
\* and body; with no such marker the function returns
TestLoop(from) ==
    LET pending == { i \in TestsConsumed(alert_commands, testcmd) : i >= from }
    IN  IF pending = {}
        THEN /\ test_ix' = 0
             /\ tests' = tests
             /\ SampleTime
        ELSE LET i == CHOOSE i \in pending : \A j \in pending : i <= j
             IN  /\ test_ix' = i
                 /\ tests' = [tests EXCEPT !.executed = @ + 1,
                                           !.unserved = @ \ {i}]
                 /\ pc' = "testcmd"
                 /\ UNCHANGED <<current_time, current_timestamp,
                                current_weekday_bitmap>>

\* top of the loop: housekeeping, test commands, the time sample.
\* cleanup_old_files removes skip files older than a day only: none within
\* the horizon.
Poll ==
    /\ pc = "poll"
    /\ loop_count' = loop_count + 1
    /\ TestLoop(0)
    /\ UNCHANGED <<run, last_alert_times, time_rules, alert_commands,
                   last_check_weekday, matching_rules, rule_ix, cmd_ix, alert>>
    /\ UNCHANGED <<envVars, histVars, funVars>>

\* os.remove(test_cmd_file) after the test command: the marker is removed
\* and the for loop goes on, or the removal raises, which ends the loop
\* (except Exception) and leaves the marker
RemoveTestMarker ==
    /\ pc = "testcmd"
    /\ \/ /\ testcmd' = testcmd \ {test_ix}
          /\ events' = events
          /\ TestLoop(test_ix + 1)
       \/ /\ events < MaxEnvEvents
          /\ events' = events + 1
          /\ testcmd' = testcmd
          /\ test_ix' = 0
          /\ tests' = tests
          /\ SampleTime
    /\ UNCHANGED <<run, last_alert_times, time_rules, alert_commands, loop_count,
                   last_check_weekday, matching_rules, rule_ix, cmd_ix, alert>>
    /\ UNCHANGED <<clock, store, confchange, skip_files, lastT, lastQ>>
    /\ UNCHANGED <<histVars, funVars>>

\* faulty variant: a signal two polling intervals old still counts
check_config_change_two_intervals(now, signal) ==
    /\ signal # Absent
    /\ 2 * (now - signal) < 5 * SLEEP_INTERVAL

\* current_time < last_change_time + SLEEP_INTERVAL * 1.5
check_config_change(now, signal) ==
    /\ signal # Absent
    /\ 2 * (now - signal) < 3 * SLEEP_INTERVAL

\* faulty variant: a reload does not force the refresh of matching_rules
ReloadCheckNoRefresh ==
    /\ pc = "reload"
    /\ IF check_config_change(current_timestamp, confchange)
       THEN LET cfg == Loaded[store]
            IN  /\ time_rules' = cfg.time_rules
                /\ alert_commands' = cfg.alert_commands
                /\ reloaded' = IF cfg.ok THEN "ok" ELSE "failed"
       ELSE /\ UNCHANGED <<time_rules, alert_commands>>
            /\ reloaded' = "no"
    /\ pc' = "rollover"
    /\ UNCHANGED <<run, last_alert_times, last_check_weekday, matching_rules,
                   loop_count, current_time, current_timestamp,
                   current_weekday_bitmap, rule_ix, cmd_ix, alert>>
    /\ UNCHANGED <<envVars, alertLog, sent, exits, lastEval, funVars, testVars>>

\* faulty variant: the configuration is read at every poll
ReloadCheckAlways ==
    /\ pc = "reload"
    /\ LET cfg == Loaded[store]
       IN  /\ time_rules' = cfg.time_rules
           /\ alert_commands' = cfg.alert_commands
           /\ last_check_weekday' = 999
           /\ reloaded' = IF ~check_config_change(current_timestamp, confchange)
                          THEN "no"
                          ELSE IF cfg.ok THEN "ok" ELSE "failed"
    /\ pc' = "rollover"
    /\ UNCHANGED <<run, last_alert_times, matching_rules, loop_count, current_time,
                   current_timestamp, current_weekday_bitmap, rule_ix, cmd_ix, alert>>
    /\ UNCHANGED <<envVars, alertLog, sent, exits, lastEval, funVars, testVars>>

ReloadCheck ==
    /\ pc = "reload"
    /\ IF check_config_change(current_timestamp, confchange)
       THEN LET cfg == Loaded[store]
            IN  /\ time_rules' = cfg.time_rules
                /\ alert_commands' = cfg.alert_commands
                /\ last_check_weekday' = 999
                /\ reloaded' = IF cfg.ok THEN "ok" ELSE "failed"
       ELSE /\ UNCHANGED <<time_rules, alert_commands, last_check_weekday>>
            /\ reloaded' = "no"
    /\ pc' = "rollover"
    /\ UNCHANGED <<run, last_alert_times, matching_rules, loop_count, current_time,
                   current_timestamp, current_weekday_bitmap, rule_ix, cmd_ix, alert>>
    /\ UNCHANGED <<envVars, alertLog, sent, exits, lastEval, funVars, testVars>>

\* the Active Rule Index is refreshed; an exception of get_matching_rules
\* leaves monitor_symbols() and reaches main()
DayRolloverCheck ==
    /\ pc = "rollover"
    /\ IF last_check_weekday # current_weekday_bitmap
       THEN LET m == get_matching_rules(time_rules, current_weekday_bitmap)
            IN  IF m.raised
                THEN /\ pc' = "cooldown"
                     /\ UNCHANGED <<matching_rules, last_check_weekday>>
                ELSE /\ matching_rules' = m.rules
                     /\ last_check_weekday' = current_weekday_bitmap
                     /\ pc' = IF Len(m.rules) = 0 THEN "sleep" ELSE "eval"
       ELSE /\ UNCHANGED <<matching_rules, last_check_weekday>>
            /\ pc' = IF Len(matching_rules) = 0 THEN "sleep" ELSE "eval"
    /\ rule_ix' = 1
    /\ UNCHANGED <<run, last_alert_times, time_rules, alert_commands, loop_count,
                   current_time, current_timestamp, current_weekday_bitmap,
                   cmd_ix, alert>>
    /\ UNCHANGED <<envVars, histVars, funVars, testVars>>

\* the for loop over matching_rules moves on
NextRule ==
    /\ rule_ix' = rule_ix + 1
    /\ pc' = IF rule_ix + 1 > Len(matching_rules) THEN "sleep" ELSE "eval"

\* one rule of the Active Rule Index: window, throttle, evaluation, record
EvalRule ==
    /\ pc = "eval"
    /\ LET rule     == matching_rules[rule_ix]
           symbol   == rule.Symbol
           inWindow == is_within_time_range(current_time, rule.Rule.BegOffset,
                                            End(rule.Rule))
           skip     == should_skip_symbol(symbol, last_alert_times,
                                          current_timestamp, skip_files)
           found    == check_symbol_alerts(rule, current_timestamp, lastQ, lastT)
           fired    == inWindow /\ ~skip /\ found.header # ""
       IN  /\ lastEval' =
                 [result    |-> IF ~inWindow THEN "window"
                                ELSE IF skip THEN "skip"
                                ELSE IF found.header = "" THEN "quiet" ELSE "fired",
                  pos       |-> rule_ix,
                  inWindow  |-> inWindow,
                  muted     |-> symbol \in skip_files,
                  throttled |-> /\ symbol \in DOMAIN last_alert_times
                                /\ current_timestamp
                                     < last_alert_times[symbol] + MIN_ALERT_INTERVAL,
                  probed    |-> inWindow /\ ~skip,
                  markT     |-> lastT[symbol],
                  markQ     |-> lastQ[symbol],
                  tick      |-> read_last_timestamp(lastT, symbol),
                  quote     |-> read_last_timestamp(lastQ, symbol),
                  before    |-> last_alert_times]
           /\ IF ~fired
              THEN NextRule /\ UNCHANGED <<last_alert_times, alert, cmd_ix, alertLog, sent, exits>>
              ELSE /\ last_alert_times' =
                         RecordAlert(last_alert_times, symbol, current_timestamp)
                   /\ alert' = found
                   /\ alertLog' = Append(alertLog, [run |-> run, symbol |-> symbol,
                                                    at |-> current_timestamp,
                                                    header |-> found.header])
                   /\ sent' = <<>>
                   /\ exits' = <<>>
                   /\ cmd_ix' = 1
                   /\ IF Len(alert_commands) = 0
                      THEN NextRule
                      ELSE pc' = "dispatch" /\ rule_ix' = rule_ix
    /\ UNCHANGED <<run, time_rules, alert_commands, last_check_weekday, matching_rules,
                   loop_count, current_time, current_timestamp, current_weekday_bitmap>>
    /\ UNCHANGED <<envVars, reloaded, funVars, testVars>>

\* faulty variant: the loop over alert_commands ends after its first command
DispatchFirstOnly ==
    /\ pc = "dispatch"
    /\ LET call == execute_alert_command(alert_commands[cmd_ix],
                                         alert.header, alert.body)
       IN  /\ sent' = Append(sent, call)
           /\ \E o \in CallOutcomes(call) : exits' = Append(exits, o)
    /\ cmd_ix' = cmd_ix + 1
    /\ NextRule
    /\ UNCHANGED <<run, last_alert_times, time_rules, alert_commands,
                   last_check_weekday, matching_rules, loop_count, current_time,
                   current_timestamp, current_weekday_bitmap, alert>>
    /\ UNCHANGED <<envVars, alertLog, reloaded, lastEval, funVars, testVars>>

\* faulty variant: a command that fails ends the loop over alert_commands
DispatchStopsOnFailure ==
    /\ pc = "dispatch"
    /\ LET call == execute_alert_command(alert_commands[cmd_ix],
                                         alert.header, alert.body)
       IN  /\ sent' = Append(sent, call)
           /\ \E o \in CallOutcomes(call) :
                 /\ exits' = Append(exits, o)
                 /\ IF cmd_ix + 1 > Len(alert_commands) \/ o \in {"nonzero", "raised"}
                    THEN NextRule
                    ELSE pc' = "dispatch" /\ rule_ix' = rule_ix
    /\ cmd_ix' = cmd_ix + 1
    /\ UNCHANGED <<run, last_alert_times, time_rules, alert_commands,
                   last_check_weekday, matching_rules, loop_count, current_time,
                   current_timestamp, current_weekday_bitmap, alert>>
    /\ UNCHANGED <<envVars, alertLog, reloaded, lastEval, funVars, testVars>>

\* one alert command of the fired alert runs
Dispatch ==
    /\ pc = "dispatch"
    /\ LET call == execute_alert_command(alert_commands[cmd_ix],
                                         alert.header, alert.body)
       IN  /\ sent' = Append(sent, call)
           /\ \E o \in CallOutcomes(call) : exits' = Append(exits, o)
    /\ cmd_ix' = cmd_ix + 1
    /\ IF cmd_ix + 1 > Len(alert_commands)
       THEN NextRule
       ELSE pc' = "dispatch" /\ rule_ix' = rule_ix
    /\ UNCHANGED <<run, last_alert_times, time_rules, alert_commands,
                   last_check_weekday, matching_rules, loop_count, current_time,
                   current_timestamp, current_weekday_bitmap, alert>>
    /\ UNCHANGED <<envVars, alertLog, reloaded, lastEval, funVars, testVars>>

\* time.sleep(SLEEP_INTERVAL); the next pass starts d seconds after this one
Sleep ==
    /\ pc = "sleep"
    /\ \E d \in Delays :
          /\ Elapsed(clock + d) <= Horizon
          /\ clock' = clock + d
    /\ pc' = "poll"
    /\ UNCHANGED <<run, last_alert_times, time_rules, alert_commands,
                   last_check_weekday, matching_rules, loop_count, current_time,
                   current_timestamp, current_weekday_bitmap, rule_ix, cmd_ix, alert>>
    /\ UNCHANGED <<store, confchange, skip_files, lastT, lastQ, testcmd, events>>
    /\ lastEval' = NoEval
    /\ sent' = <<>>
    /\ exits' = <<>>
    /\ UNCHANGED <<alertLog, reloaded, funVars, testVars>>

\* faulty variant: the loop is restarted after one polling interval
CooldownOnePoll ==
    /\ pc = "cooldown"
    /\ Elapsed(clock + SLEEP_INTERVAL) <= Horizon
    /\ clock' = clock + SLEEP_INTERVAL
    /\ pc' = "start"
    /\ UNCHANGED <<run, last_alert_times, time_rules, alert_commands,
                   last_check_weekday, matching_rules, loop_count, current_time,
                   current_timestamp, current_weekday_bitmap, rule_ix, cmd_ix, alert>>
    /\ UNCHANGED <<store, confchange, skip_files, lastT, lastQ, testcmd, events>>
    /\ UNCHANGED <<histVars, funVars, testVars>>

\* faulty variant: the exception handler of main() leaves the process
CooldownExits ==
    /\ pc = "cooldown"
    /\ Elapsed(clock + RESTART_COOLDOWN) <= Horizon
    /\ clock' = clock + RESTART_COOLDOWN
    /\ pc' = "exit"
    /\ UNCHANGED <<run, last_alert_times, time_rules, alert_commands,
                   last_check_weekday, matching_rules, loop_count, current_time,
                   current_timestamp, current_weekday_bitmap, rule_ix, cmd_ix, alert>>
    /\ UNCHANGED <<store, confchange, skip_files, lastT, lastQ, testcmd, events>>
    /\ UNCHANGED <<histVars, funVars, testVars>>

\* main(): except Exception: time.sleep(30), then monitor_symbols() again
Cooldown ==
    /\ pc = "cooldown"
    /\ Elapsed(clock + RESTART_COOLDOWN) <= Horizon
    /\ clock' = clock + RESTART_COOLDOWN
    /\ pc' = "start"
    /\ UNCHANGED <<run, last_alert_times, time_rules, alert_commands,
                   last_check_weekday, matching_rules, loop_count, current_time,
                   current_timestamp, current_weekday_bitmap, rule_ix, cmd_ix, alert>>
    /\ UNCHANGED <<store, confchange, skip_files, lastT, lastQ, testcmd, events>>
    /\ UNCHANGED <<histVars, funVars, testVars>>

(***************************************************************************)
(* The collaborators.                                                      *)
(***************************************************************************)
\* doAction.py TQALERT_MUTE: create_skip_file
Mute ==
    /\ events < MaxEnvEvents
    /\ \E s \in Symbols \ skip_files : skip_files' = skip_files \cup {s}
    /\ events' = events + 1
    /\ UNCHANGED <<clock, store, confchange, lastT, lastQ, testcmd>>
    /\ UNCHANGED <<monVars, histVars, funVars, testVars>>

\* doAction.py TQALERT_UNMUTE: remove_skip_file
Unmute ==
    /\ events < MaxEnvEvents
    /\ \E s \in skip_files : skip_files' = skip_files \ {s}
    /\ events' = events + 1
    /\ UNCHANGED <<clock, store, confchange, lastT, lastQ, testcmd>>
    /\ UNCHANGED <<monVars, histVars, funVars, testVars>>

\* the feed writer stamps <symbol>.LastT
FeedTick ==
    /\ events < MaxEnvEvents
    /\ \E s \in Symbols : lastT[s] # clock /\ lastT' = [lastT EXCEPT ![s] = clock]
    /\ events' = events + 1
    /\ UNCHANGED <<clock, store, confchange, skip_files, lastQ, testcmd>>
    /\ UNCHANGED <<monVars, histVars, funVars, testVars>>

\* the feed writer stamps <symbol>.LastQ
FeedQuote ==
    /\ events < MaxEnvEvents
    /\ \E s \in Symbols : lastQ[s] # clock /\ lastQ' = [lastQ EXCEPT ![s] = clock]
    /\ events' = events + 1
    /\ UNCHANGED <<clock, store, confchange, skip_files, lastT, testcmd>>
    /\ UNCHANGED <<monVars, histVars, funVars, testVars>>

\* eConf.py UPDATE: the row is written, then signal_config_change
EditConfig ==
    /\ events < MaxEnvEvents
    /\ \E st \in Stores : st # store /\ store' = st
    /\ confchange' = clock
    /\ events' = events + 1
    /\ UNCHANGED <<clock, skip_files, lastT, lastQ, testcmd>>
    /\ UNCHANGED <<monVars, histVars, funVars, testVars>>

\* doAction.py handle_test_command: the test marker is written, over the
\* one that is there if any
RequestTest ==
    /\ events < MaxEnvEvents
    /\ \E i \in TestNames :
          /\ testcmd' = testcmd \cup {i}
          /\ tests' = [tests EXCEPT !.requested = @ + 1,
                                    !.unserved = @ \cup {i}]
    /\ events' = events + 1
    /\ test_ix' = test_ix
    /\ UNCHANGED <<clock, store, confchange, skip_files, lastT, lastQ>>
    /\ UNCHANGED <<monVars, histVars, funVars>>

Next ==
    \/ StartMonitor
    \/ Poll
    \/ RemoveTestMarker
    \/ ReloadCheck
    \/ DayRolloverCheck
    \/ EvalRule
    \/ Dispatch
    \/ Sleep
    \/ Cooldown
    \/ Mute
    \/ Unmute
    \/ FeedTick
    \/ FeedQuote
    \/ EditConfig
    \/ RequestTest

Spec == Init /\ [][Next]_vars

\* the steps of the process itself
Monitor ==
    \/ StartMonitor
    \/ Poll
    \/ RemoveTestMarker
    \/ ReloadCheck
    \/ DayRolloverCheck
    \/ EvalRule
    \/ Dispatch
    \/ Sleep
    \/ Cooldown

\* the process is not stopped: the statement it is at is executed, a sleep
\* returns, an alert command returns
SpecLive == Init /\ [][Next]_vars /\ WF_vars(Monitor)

(***************************************************************************)
(* The process started on a configuration of windows that do not close.    *)
(***************************************************************************)
\* the state after construction, for a start at one of the instants `starts`
\* on the configuration row st
InitWith(starts, st) ==
    /\ pc = "start"
    /\ run = 0
    /\ last_alert_times = EmptyMap
    /\ time_rules = <<>>
    /\ alert_commands = <<>>
    /\ last_check_weekday = 0
    /\ matching_rules = <<>>
    /\ loop_count = 0
    /\ current_time = 0
    /\ current_timestamp = 0
    /\ current_weekday_bitmap = 0
    /\ rule_ix = 1
    /\ cmd_ix = 1
    /\ alert = NoAlert
    /\ clock \in starts
    /\ store = st
    /\ confchange = Absent
    /\ skip_files = {}
    /\ \E m \in InitialMarkers(clock) :
          /\ lastT = [s \in Symbols |-> m[1]]
          /\ lastQ = [s \in Symbols |-> m[2]]
    /\ testcmd = {}
    /\ events = 0
    /\ alertLog = <<>>
    /\ sent = <<>>
    /\ exits = <<>>
    /\ reloaded = "no"
    /\ lastEval = NoEval
    /\ test_ix = 0
    /\ tests = NoTests
    /\ fin = Idle
    /\ fout = Idle

InitNight == InitWith(Starts, StoreNight)

SpecNight == InitNight /\ [][Next]_vars

(***************************************************************************)
(* The time sample read by read: datetime.now() for the time of day,       *)
(* datetime.now() for the timestamp, datetime.today() for the weekday.     *)
(***************************************************************************)
\* the seconds the wall clock advances between the first and the second
\* read, and between the second and the third
ReadSkews == { <<0, 0>>, <<1, 0>>, <<0, 1>> }

\* the three reads; a second that begins between two of them is an event of
\* the wall clock
SampleTimeSplit ==
    \E k \in ReadSkews :
       /\ k # <<0, 0>> => events < MaxEnvEvents
       /\ events' = IF k = <<0, 0>> THEN events ELSE events + 1
       /\ current_time' = TimeOfDay(clock)
       /\ current_timestamp' = clock + k[1]
       /\ current_weekday_bitmap' = get_weekday_bitmap(IsoWeekday(clock + k[1] + k[2]))
       /\ clock' = clock + k[1] + k[2]
       /\ pc' = "reload"

TestLoopSplit(from) ==
    LET pending == { i \in TestsConsumed(alert_commands, testcmd) : i >= from }
    IN  IF pending = {}
        THEN /\ test_ix' = 0
             /\ tests' = tests
             /\ SampleTimeSplit
        ELSE LET i == CHOOSE i \in pending : \A j \in pending : i <= j
             IN  /\ test_ix' = i
                 /\ tests' = [tests EXCEPT !.executed = @ + 1,
                                           !.unserved = @ \ {i}]
                 /\ pc' = "testcmd"
                 /\ UNCHANGED <<current_time, current_timestamp,
                                current_weekday_bitmap, clock, events>>

PollSplit ==
    /\ pc = "poll"
    /\ loop_count' = loop_count + 1
    /\ TestLoopSplit(0)
    /\ UNCHANGED <<run, last_alert_times, time_rules, alert_commands,
                   last_check_weekday, matching_rules, rule_ix, cmd_ix, alert>>
    /\ UNCHANGED <<store, confchange, skip_files, lastT, lastQ, testcmd>>
    /\ UNCHANGED <<histVars, funVars>>

\* (a removal that fails is the event of its step: the reads that follow it
\* fall in one second)
RemoveTestMarkerSplit ==
    /\ pc = "testcmd"
    /\ \/ /\ testcmd' = testcmd \ {test_ix}
          /\ TestLoopSplit(test_ix + 1)
       \/ /\ events < MaxEnvEvents
          /\ events' = events + 1
          /\ testcmd' = testcmd
          /\ test_ix' = 0
          /\ tests' = tests
          /\ SampleTime
          /\ clock' = clock
    /\ UNCHANGED <<run, last_alert_times, time_rules, alert_commands, loop_count,
                   last_check_weekday, matching_rules, rule_ix, cmd_ix, alert>>
    /\ UNCHANGED <<store, confchange, skip_files, lastT, lastQ>>
    /\ UNCHANGED <<histVars, funVars>>

\* the last second of a Monday
LateStarts == { MondayMidnight + DAY_SECONDS - 1 }

InitSplit == InitWith(LateStarts, StoreLate)

NextSplit ==
    \/ StartMonitor
    \/ PollSplit
    \/ RemoveTestMarkerSplit
    \/ ReloadCheck
    \/ DayRolloverCheck
    \/ EvalRule
    \/ Dispatch
    \/ Sleep
    \/ Cooldown
    \/ Mute
    \/ Unmute
    \/ FeedTick
    \/ FeedQuote
    \/ EditConfig
    \/ RequestTest

SpecSplit == InitSplit /\ [][NextSplit]_vars

(***************************************************************************)
(* The operator's interruption.                                            *)
(***************************************************************************)
\* SIGINT: KeyboardInterrupt is raised at the statement the process is at.
\* No handler but the one of main() catches it (the others are 'except
\* Exception'): it leaves monitor_symbols() and main() breaks out of its
\* loop; raised in the cooldown, inside the handler of main(), it ends the
\* process as well.
Interrupt ==
    /\ pc # "exit"
    /\ pc' = "exit"
    /\ UNCHANGED <<run, last_alert_times, time_rules, alert_commands,
                   last_check_weekday, matching_rules, loop_count, current_time,
                   current_timestamp, current_weekday_bitmap, rule_ix, cmd_ix, alert>>
    /\ UNCHANGED <<envVars, histVars, funVars, testVars>>

NextStop == Next \/ Interrupt

SpecStop == Init /\ [][NextStop]_vars

(***************************************************************************)
(* Alert commands that do not end.                                         *)
(***************************************************************************)
\* subprocess.call(final_command, shell=True) waits for the shell without a
\* timeout: with a command that never ends the call does not return
DispatchHangs ==
    /\ pc = "dispatch"
    /\ LET call == execute_alert_command(alert_commands[cmd_ix],
                                         alert.header, alert.body)
       IN  /\ call.ran
           /\ sent' = Append(sent, call)
    /\ pc' = "blocked"
    /\ UNCHANGED <<run, last_alert_times, time_rules, alert_commands,
                   last_check_weekday, matching_rules, loop_count, current_time,
                   current_timestamp, current_weekday_bitmap, rule_ix, cmd_ix, alert>>
    /\ UNCHANGED <<envVars, alertLog, exits, reloaded, lastEval, funVars, testVars>>

NextHang == Next \/ DispatchHangs

\* the process is not stopped, whatever its commands do
SpecHang == Init /\ [][NextHang]_vars /\ WF_vars(Monitor \/ DispatchHangs)

(***************************************************************************)
(* The functions applied on their own: the inputs are drawn by the         *)
(* initial state, one action applies each function.                        *)
(***************************************************************************)
\* a weekday mask as its seven digits, Monday first
Bits7 == [1..7 -> {0, 1}]

\* the integer the seven digits spell
FromBits(b) ==
    b[1] * 1000000 + b[2] * 100000 + b[3] * 10000 + b[4] * 1000
    + b[5] * 100 + b[6] * 10 + b[7]

OnlyDay(w) == [i \in 1..7 |-> IF i = w THEN 1 ELSE 0]

SomeMasks == { [i \in 1..7 |-> 1], OnlyDay(1), OnlyDay(2), OnlyDay(7) }

\* how many rules one symbol has in a repository that is drawn
MaxRulesPerSymbol == 2

MaskLists(M) == UNION { [1..n -> M] : n \in 0..MaxRulesPerSymbol }

SymbolOrder == <<"A", "B">>

MatchInputs ==
    { [op |-> "match", weekday |-> w, masks |-> [A |-> <<b>>, B |-> <<>>]] :
         w \in 1..7, b \in Bits7 }
    \cup
    { [op |-> "match", weekday |-> w, masks |-> [A |-> a, B |-> b]] :
         w \in 1..7, a \in MaskLists(SomeMasks), b \in MaskLists(SomeMasks) }

Thresholds == {0, 30, 60}

\* the instant of the evaluation, and the marker ages around the thresholds
EvalNow == MondayMidnight + 10 * 3600

MarkerValues == { Absent, EvalNow - 120, EvalNow - 61, EvalNow - 60, EvalNow - 31,
                  EvalNow - 30, EvalNow - 10, EvalNow }

EvalInputs ==
    { [op |-> "evaluate", TickSec |-> t, QuoteSec |-> q, now |-> EvalNow,
       lastTick |-> lt, lastQuote |-> lq] :
         t \in Thresholds, q \in Thresholds, lt \in MarkerValues, lq \in MarkerValues }

BeginTimes == {0, 84500, 93000, 235900, 235959}

OffsetThresholds == {0, 30, 60, 120, 86399, 86400, 90000}

OffsetInputs ==
    { [op |-> "offset", Beg |-> b, TickSec |-> t, QuoteSec |-> q] :
         b \in BeginTimes, t \in OffsetThresholds, q \in OffsetThresholds }

\* how many pieces a configuration value that is drawn is made of
MaxPieces == 3

\* the pieces: the characters that are escaped, the characters the entities
\* are written with, and the entities without their '&'
Pieces == { Backslash, DoubleQuote, SingleQuote, <<"&">>, <<";">>, <<"a">>,
            Tail(EntityBsol), Tail(EntityQuot), Tail(EntityApos) }

RECURSIVE Concat(_)
Concat(ps) == IF Len(ps) = 0 THEN <<>> ELSE Head(ps) \o Concat(Tail(ps))

ConfigValues == { Concat(ps) : ps \in UNION { [1..n -> Pieces] : n \in 0..MaxPieces } }

EscapeInputs == { [op |-> "escape", value |-> v] : v \in ConfigValues }

\* how many characters a symbol name that is drawn has
MaxNameLen == 3

NameChars == {"A", "/", "\\", ".", ",", " "}

SymbolNames == UNION { [1..n -> NameChars] : n \in 1..MaxNameLen }

MuteInputs == { [op |-> "mute", symbol |-> n] : n \in SymbolNames }

InitFun ==
    /\ pc = "start"
    /\ run = 0
    /\ last_alert_times = EmptyMap
    /\ time_rules = <<>>
    /\ alert_commands = <<>>
    /\ last_check_weekday = 0
    /\ matching_rules = <<>>
    /\ loop_count = 0
    /\ current_time = 0
    /\ current_timestamp = 0
    /\ current_weekday_bitmap = 0
    /\ rule_ix = 1
    /\ cmd_ix = 1
    /\ alert = NoAlert
    /\ clock = EvalNow
    /\ store = StoreMain
    /\ confchange = Absent
    /\ skip_files = {}
    /\ lastT = [s \in Symbols |-> Absent]
    /\ lastQ = [s \in Symbols |-> Absent]
    /\ testcmd = {}
    /\ events = 0
    /\ alertLog = <<>>
    /\ sent = <<>>
    /\ exits = <<>>
    /\ reloaded = "no"
    /\ lastEval = NoEval
    /\ test_ix = 0
    /\ tests = NoTests
    /\ fin \in MatchInputs \cup EvalInputs \cup OffsetInputs \cup EscapeInputs
                \cup MuteInputs
    /\ fout = Idle

\* the repository whose rules have the drawn weekday masks
MaskRepository(masks) ==
    process_time_rules(
        [k \in 1..Len(SymbolOrder) |->
            [Symbol |-> SymbolOrder[k],
             rules  |-> [j \in 1..Len(masks[SymbolOrder[k]]) |->
                           RawRule(<<FromBits(masks[SymbolOrder[k]][j]),
                                     0, 235959, 0, 0>>)]]]).time_rules

\* get_weekday_bitmap, then get_matching_rules
ApplyMatch ==
    /\ fin.op = "match"
    /\ fout = Idle
    /\ LET bitmap == get_weekday_bitmap(fin.weekday)
       IN  fout' = [op |-> "match", bitmap |-> bitmap,
                    rules |-> get_matching_rules(MaskRepository(fin.masks), bitmap).rules]
    /\ UNCHANGED <<monVars, envVars, histVars, testVars, fin>>

\* check_symbol_alerts on one rule and one pair of markers
ApplyEvaluate ==
    /\ fin.op = "evaluate"
    /\ fout = Idle
    /\ LET rule == [Symbol |-> "A", RuleIdx |-> 0,
                    Rule |-> RuleDict(<<1111111, 93000, 134500,
                                        fin.TickSec, fin.QuoteSec>>)]
           got  == check_symbol_alerts(rule, fin.now,
                                       [s \in Symbols |-> fin.lastQuote],
                                       [s \in Symbols |-> fin.lastTick])
       IN  fout' = [op |-> "evaluate", header |-> got.header, body |-> got.body]
    /\ UNCHANGED <<monVars, envVars, histVars, testVars, fin>>

\* _process_time_rules on a repository of one rule
ApplyOffset ==
    /\ fin.op = "offset"
    /\ fout = Idle
    /\ LET raw  == << [Symbol |-> "A",
                       rules  |-> << RawRule(<<1111111, fin.Beg, 235959,
                                               fin.TickSec, fin.QuoteSec>>) >>] >>
           rule == process_time_rules(raw).time_rules[1].rules[1]
       IN  fout' = [op |-> "offset", Beg |-> Beg(rule), BegOffset |-> rule.BegOffset]
    /\ UNCHANGED <<monVars, envVars, histVars, testVars, fin>>

\* eConf.py UPDATE of a value, then its QUERY and its load by the monitor
ApplyEscape ==
    /\ fin.op = "escape"
    /\ fout = Idle
    /\ LET stored == escape_config_value(fin.value)
       IN  fout' = [op |-> "escape", stored |-> stored,
                    queried |-> unescape_config_value(stored),
                    loaded |-> unescape_before_json(stored)]
    /\ UNCHANGED <<monVars, envVars, histVars, testVars, fin>>

\* doAction.py TQALERT_MUTE for one symbol of the rule set, then
\* TQALERT_UNMUTE for it, with the skip file test of should_skip_symbol
\* after each; and TQALERT_UNMUTE with no skip file there
ApplyMute ==
    /\ fin.op = "mute"
    /\ fout = Idle
    /\ LET muted   == files_after_mute({}, fin.symbol)
           unmuted == files_after_unmute(muted, fin.symbol)
       IN  fout' = [op |-> "mute",
                    succeed |-> symbol_list(fin.symbol),
                    skipMuted |-> monitor_skip_file(fin.symbol) \in muted,
                    skipUnmuted |-> monitor_skip_file(fin.symbol) \in unmuted,
                    skipNeverMuted |->
                       monitor_skip_file(fin.symbol) \in files_after_unmute({}, fin.symbol)]
    /\ UNCHANGED <<monVars, envVars, histVars, testVars, fin>>

NextFun == ApplyMatch \/ ApplyEvaluate \/ ApplyOffset \/ ApplyEscape \/ ApplyMute

SpecFun == InitFun /\ [][NextFun]_vars

(***************************************************************************)
(* Properties.                                                             *)
(***************************************************************************)
\* the rule the latest evaluation was about
EvalEntry == matching_rules[lastEval.pos]

\* C1: within one run of the monitoring loop, any two recorded alerts of the
\* same symbol are at least MIN_ALERT_INTERVAL seconds apart: fire-worthy
\* evaluations closer than that, also of two rules of the symbol in the
\* same poll, give one dispatch.
C1_ThrottleSpacing ==
    \A i \in 1..Len(alertLog) : \A j \in 1..Len(alertLog) :
        (i < j /\ alertLog[i].run = alertLog[j].run
               /\ alertLog[i].symbol = alertLog[j].symbol)
        => alertLog[j].at - alertLog[i].at >= MIN_ALERT_INTERVAL

\* a fire-worthy, in-window, unmuted evaluation was suppressed by an alert
\* recorded in the same poll
C1_Witness ==
    /\ lastEval.result = "skip"
    /\ lastEval.inWindow /\ ~lastEval.muted /\ lastEval.throttled
    /\ check_symbol_alerts(EvalEntry, current_timestamp, lastQ, lastT).header # ""
    /\ lastEval.before[EvalEntry.Symbol] = current_timestamp

\* C2: a reload that fails leaves the rule repository and the alert
\* commands as they were before it.
C2_FailedReloadKeepsRules ==
    [][ (pc = "reload" /\ pc' = "rollover" /\ reloaded' = "failed")
        => (time_rules' = time_rules /\ alert_commands' = alert_commands) ]_vars

\* C3: whenever an alert command of a fired alert is running, the alert
\* time of its symbol is already recorded as this iteration's timestamp.
C3_RecordBeforeDispatch ==
    pc = "dispatch"
    => /\ matching_rules[rule_ix].Symbol \in DOMAIN last_alert_times
       /\ last_alert_times[matching_rules[rule_ix].Symbol] = current_timestamp

\* one command of the alert has run and the next is about to
C3_Witness == pc = "dispatch" /\ Len(sent) >= 1

\* C4: the evaluation of a rule whose symbol has a mute marker dispatches
\* nothing and leaves Alert State unchanged, whatever the throttle state
\* and the staleness.
C4_MutedSymbolUntouched ==
    [][ (pc = "eval" /\ matching_rules[rule_ix].Symbol \in skip_files)
        => /\ last_alert_times' = last_alert_times
           /\ alertLog' = alertLog
           /\ sent' = sent
           /\ pc' # "dispatch"
           /\ (lastEval' # lastEval => lastEval'.result \in {"window", "skip"}) ]_vars

\* a muted, in-window, unthrottled symbol with a stale marker was skipped
C4_Witness ==
    /\ lastEval.result = "skip"
    /\ lastEval.inWindow /\ lastEval.muted /\ ~lastEval.throttled
    /\ check_symbol_alerts(EvalEntry, current_timestamp, lastQ, lastT).header # ""

\* a monitored signal whose marker (0 when absent) is more than threshold
\* seconds old
Stale(threshold, now, marker) ==
    threshold > 0 /\ now - (IF marker = Absent THEN 0 ELSE marker) > threshold

\* C5: the evaluation yields one (kind, message) pair: NoTick whenever the
\* tick marker is stale, NoQuote when only the quote marker is stale,
\* nothing otherwise; a marker exactly threshold seconds old is not stale.
C5_EvaluateResult ==
    fout.op = "evaluate"
    => LET tickStale  == Stale(fin.TickSec, fin.now, fin.lastTick)
           quoteStale == Stale(fin.QuoteSec, fin.now, fin.lastQuote)
       IN  /\ tickStale => /\ fout.header = "No Tick Alert"
                           /\ fout.body = <<"A", " has no tick for ",
                                            ToString(fin.TickSec), " seconds!">>
           /\ (~tickStale /\ quoteStale)
                 => /\ fout.header = "No Quote Alert"
                    /\ fout.body = <<"A", " has no quote for ",
                                     ToString(fin.QuoteSec), " seconds!">>
           /\ (~tickStale /\ ~quoteStale) => (fout.header = "" /\ fout.body = <<>>)

\* both markers were stale and the tick alert came out
C5_Witness ==
    /\ fout.op = "evaluate"
    /\ Stale(fin.TickSec, fin.now, fin.lastTick)
    /\ Stale(fin.QuoteSec, fin.now, fin.lastQuote)
    /\ fout.header = "No Tick Alert"

\* the latest evaluation was of a rule (TickSec 60, QuoteSec 0) inside its
\* window, its symbol neither muted nor throttled
ScenarioRule ==
    /\ lastEval.result # "none"
    /\ TickSec(EvalEntry.Rule) = 60
    /\ QuoteSec(EvalEntry.Rule) = 0
    /\ lastEval.inWindow /\ ~lastEval.muted /\ ~lastEval.throttled

\* every configured command was called, in list order, with the NoTick
\* header and body
AllCommandsSent ==
    /\ Len(sent) = Len(alert_commands)
    /\ \A k \in 1..Len(sent) :
          sent[k] = execute_alert_command(alert_commands[k], "No Tick Alert",
                                          <<EvalEntry.Symbol, " has no tick for ",
                                            "60", " seconds!">>)

\* C6: a rule active today with TickSec 60 and QuoteSec 0, evaluated inside
\* its window for a symbol neither muted nor throttled: with the last tick
\* 120 s old the alert is recorded and every alert command is dispatched
\* with the NoTick header; with the last tick 10 s old nothing is
\* dispatched and Alert State is unchanged.
C6_ScenariosAB ==
    /\ (ScenarioRule /\ lastEval.tick = current_timestamp - 120)
          => /\ lastEval.result = "fired"
             /\ alert.header = "No Tick Alert"
             /\ last_alert_times[EvalEntry.Symbol] = current_timestamp
             /\ alertLog[Len(alertLog)].at = current_timestamp
             /\ IF pc = "dispatch"
                THEN Len(sent) = cmd_ix - 1 /\ cmd_ix <= Len(alert_commands)
                ELSE AllCommandsSent
    /\ (ScenarioRule /\ lastEval.tick = current_timestamp - 10)
          => /\ lastEval.result = "quiet"
             /\ last_alert_times = lastEval.before
             /\ pc # "dispatch"

\* scenario A ran to the end: the alert is recorded and both commands of the
\* configuration were dispatched
C6_Witness ==
    /\ ScenarioRule
    /\ lastEval.tick = current_timestamp - 120
    /\ pc # "dispatch"
    /\ Len(sent) = 2

\* C7: the evaluation of a rule whose TickSec and QuoteSec are both 0 never
\* fires: it dispatches nothing and leaves Alert State unchanged, whatever
\* the markers hold.
C7_ZeroThresholdsNeverFire ==
    [][ (pc = "eval" /\ TickSec(matching_rules[rule_ix].Rule) = 0
                     /\ QuoteSec(matching_rules[rule_ix].Rule) = 0)
        => /\ last_alert_times' = last_alert_times
           /\ alertLog' = alertLog
           /\ pc' # "dispatch"
           /\ (lastEval' # lastEval => lastEval'.result # "fired") ]_vars

\* a rule with both thresholds 0 was evaluated inside its window, unmuted
\* and unthrottled, with absent markers
C7_Witness ==
    /\ lastEval.result = "quiet"
    /\ TickSec(EvalEntry.Rule) = 0 /\ QuoteSec(EvalEntry.Rule) = 0
    /\ lastEval.tick = 0 /\ lastEval.quote = 0

\* C8: the bitmap of weekday w is the single digit 1 at place w (Monday
\* first), and the matcher lists each rule exactly once if its mask has
\* the digit 1 at that place and not at all otherwise.
C8_WeekdayMatching ==
    fout.op = "match"
    => /\ fout.bitmap = FromBits(OnlyDay(fin.weekday))
       /\ \A s \in Symbols : \A j \in 1..Len(fin.masks[s]) :
             Cardinality({ k \in 1..Len(fout.rules) :
                              /\ fout.rules[k].Symbol = s
                              /\ fout.rules[k].RuleIdx = j - 1 })
             = (IF fin.masks[s][j][fin.weekday] = 1 THEN 1 ELSE 0)
       /\ \A k \in 1..Len(fout.rules) :
             LET e == fout.rules[k]
             IN  /\ e.RuleIdx + 1 \in 1..Len(fin.masks[e.Symbol])
                 /\ WeekVal(e.Rule) = FromBits(fin.masks[e.Symbol][e.RuleIdx + 1])

\* of two rules of one symbol, with masks differing, one was listed
C8_Witness ==
    /\ fout.op = "match"
    /\ fin.weekday = 2
    /\ Len(fin.masks["A"]) = 2
    /\ fin.masks["A"][1][2] = 0 /\ fin.masks["A"][2][2] = 1
    /\ Len(fout.rules) >= 1
    /\ fout.rules[1].Symbol = "A" /\ fout.rules[1].RuleIdx = 1

\* the seconds an HHMMSS value stands for
SecondsOf(hhmmss) ==
    (hhmmss \div 10000) * 3600 + ((hhmmss \div 100) % 100) * 60 + (hhmmss % 100)

\* the smallest of the thresholds that are not 0, or 0
MinNonzero(tick, quote) ==
    IF tick > 0 /\ (quote = 0 \/ tick <= quote) THEN tick
    ELSE IF quote > 0 THEN quote ELSE 0

\* C9: BegOffset is Beg advanced by the smallest nonzero threshold, for
\* every threshold value, those of 86400 s and more included (compared as
\* seconds of the day, so that a rollover at midnight is not at issue).
C9_BegOffsetIsBegPlusMin ==
    fout.op = "offset"
    => SecondsOf(fout.BegOffset) % DAY_SECONDS
       = (SecondsOf(fin.Beg) + MinNonzero(fin.TickSec, fin.QuoteSec)) % DAY_SECONDS

\* C10: BegOffset of a loaded rule is a wall-clock HHMMSS value: hours
\* below 24, minutes and seconds below 60.
C10_BegOffsetIsWallClock ==
    fout.op = "offset"
    => /\ fout.BegOffset \in 0..235959
       /\ fout.BegOffset \div 10000 < 24
       /\ (fout.BegOffset \div 100) % 100 < 60
       /\ fout.BegOffset % 100 < 60

\* C11: a rule whose time of day is outside [BegOffset, End), compared as
\* HHMMSS integers, is not evaluated: the markers are not probed, nothing is
\* dispatched and Alert State is as before; so an alert is fired only at a
\* time of day from BegOffset on and before End.
C11_WindowGating ==
    lastEval.result # "none"
    => LET rc     == EvalEntry.Rule
           inside == rc.BegOffset <= current_time /\ current_time < End(rc)
       IN  /\ ~inside => /\ lastEval.result = "window"
                         /\ ~lastEval.probed
                         /\ last_alert_times = lastEval.before
                         /\ pc # "dispatch"
           /\ lastEval.result = "fired" => inside

\* at the end of its window or later, a rule that would have fired on an
\* unmuted, unthrottled symbol was passed over
C11_Witness ==
    /\ lastEval.result = "window"
    /\ current_time >= End(EvalEntry.Rule)
    /\ ~lastEval.muted /\ ~lastEval.throttled
    /\ check_symbol_alerts(EvalEntry, current_timestamp, lastQ, lastT).header # ""

\* C12: the reload step of an iteration reloads the configuration exactly
\* when the reload signal holds a timestamp T and now < T + 1.5 polling
\* intervals; with no readable signal, or one that is two polling
\* intervals old, the repository is left as it is.
C12_ReloadTrigger ==
    [][ (pc = "reload" /\ pc' = "rollover")
        => LET readable == confchange # Absent
               recent   == /\ readable
                           /\ 2 * (current_timestamp - confchange) < 3 * SLEEP_INTERVAL
               cfg      == read_config_from_cassandra(store, time_rules, alert_commands)
           IN  /\ (reloaded' # "no") <=> recent
               /\ recent => /\ time_rules' = cfg.time_rules
                            /\ alert_commands' = cfg.alert_commands
               /\ ~recent => /\ time_rules' = time_rules
                             /\ alert_commands' = alert_commands
               /\ (readable /\ current_timestamp - confchange >= 2 * SLEEP_INTERVAL)
                     => reloaded' = "no" ]_vars

\* the reload step met a signal exactly two polling intervals old and did
\* not reload
C12_Witness ==
    /\ pc = "rollover"
    /\ reloaded = "no"
    /\ confchange # Absent
    /\ current_timestamp - confchange = 2 * SLEEP_INTERVAL

\* C13: while the rules of an iteration are evaluated, the Active Rule
\* Index is the list of the rules of the current repository that are active
\* on the weekday of the iteration, in the first iteration, after a day
\* change and after a reload alike.
C13_ActiveRuleIndexCurrent ==
    pc \in {"eval", "dispatch", "sleep"}
    => LET today == get_weekday_bitmap(IsoWeekday(current_timestamp))
           m     == get_matching_rules(time_rules, today)
       IN  ~m.raised /\ matching_rules = m.rules

\* the evaluation starts in an iteration, not the first, that has just
\* loaded an edited configuration
C13_Witness ==
    /\ pc = "eval" /\ rule_ix = 1
    /\ loop_count > 1
    /\ reloaded = "ok"
    /\ matching_rules[1].Symbol = "B"

\* the clock and the restarts have room for a cooldown and one more pass
CanGoOn ==
    /\ Elapsed(clock) + RESTART_COOLDOWN <= Horizon
    /\ run < MaxRuns

C15_DispatchIsolation ==
    /\ Len(exits) = Len(sent)
    /\ pc = "dispatch"
          => /\ Len(sent) = cmd_ix - 1
             /\ cmd_ix <= Len(alert_commands)
    /\ (lastEval.result = "fired" /\ pc # "dispatch")
          => /\ Len(sent) = Len(alert_commands)
             /\ rule_ix = lastEval.pos + 1
             /\ pc = IF rule_ix <= Len(matching_rules) THEN "eval" ELSE "sleep"
    /\ lastEval.result = "fired"
          => \A k \in 1..Len(sent) :
                sent[k].command = Substitute(alert_commands[k], alert.header, alert.body)

\* the second of three commands raised, the third ran all the same
C15_Witness ==
    /\ lastEval.result = "fired"
    /\ pc # "dispatch"
    /\ Len(exits) = 3
    /\ exits[2] = "raised"
    /\ exits[3] = "zero"

\* how many places the first n elements of a template take once {BODY} is
\* replaced by the elements of the body
RECURSIVE WidthBefore(_, _, _)
WidthBefore(template, body, n) ==
    IF n = 0 THEN 0
    ELSE WidthBefore(template, body, n - 1)
         + (IF template[n] = "{BODY}" THEN Len(body) ELSE 1)

\* cmd is the template with the header at every {HEADER}, the body at every
\* {BODY} and every other element in its place
Substituted(cmd, template, header, body) ==
    /\ Len(cmd) = WidthBefore(template, body, Len(template))
    /\ \A i \in 1..Len(template) :
          LET at == WidthBefore(template, body, i - 1)
          IN  IF template[i] = "{HEADER}" THEN cmd[at + 1] = header
              ELSE IF template[i] = "{BODY}"
                   THEN \A b \in 1..Len(body) : cmd[at + b] = body[b]
              ELSE cmd[at + 1] = template[i]

\* the first element of cmd that is not blank is '#'
CommentedOut(cmd) ==
    \E i \in 1..Len(cmd) : cmd[i] = "#" /\ \A j \in 1..(i - 1) : cmd[j] = " "

\* C16: every command called for an alert is its template with the header
\* and the body at every {HEADER} and {BODY}; no process is run for it
\* exactly when its first non-blank character is '#'; a command that is
\* skipped so leaves the other commands to be called, and the alert is
\* recorded in Alert State.
C16_CommentedOutChannel ==
    lastEval.result = "fired"
    => /\ \A k \in 1..Len(sent) :
             /\ Substituted(sent[k].command, alert_commands[k], alert.header, alert.body)
             /\ sent[k].ran <=> ~CommentedOut(sent[k].command)
             /\ exits[k] = "skipped" <=> CommentedOut(sent[k].command)
       /\ pc # "dispatch" => Len(sent) = Len(alert_commands)
       /\ last_alert_times[EvalEntry.Symbol] = current_timestamp

\* the first of three commands was commented out, the two after it ran
C16_Witness ==
    /\ lastEval.result = "fired"
    /\ pc # "dispatch"
    /\ Len(sent) = 3
    /\ ~sent[1].ran /\ sent[2].ran /\ sent[3].ran
    /\ sent[3].command = <<"page ">> \o alert.body \o <<" ", alert.header, " ">>
                            \o alert.body \o <<alert.header>>

\* C17: every test request is consumed exactly once: the test commands run
\* are never more than the requests made, and a request that no run has
\* served yet still has its marker, whatever the writer of the markers
\* does between the steps of the monitor and whether or not the removal of
\* a marker succeeds.
C17_TestRequestOnce ==
    /\ tests.executed <= tests.requested
    /\ \A i \in tests.unserved : i \in testcmd

\* C18: an entry of Alert State, once created, is never deleted and its
\* value never decreases while the process runs, across reloads and across
\* the restart of the loop that follows an error.
C18_AlertStateKept ==
    [][ \A s \in DOMAIN last_alert_times :
            /\ s \in DOMAIN last_alert_times'
            /\ last_alert_times'[s] >= last_alert_times[s] ]_vars

\* C19: the Alert State entry of a symbol changes only in the step in which
\* an alert of that symbol fires and is handed to the alert commands; no
\* other step of the system changes it.
C19_AlertStateOnlyOnDispatch ==
    [][ \A s \in Symbols :
            LET had == s \in DOMAIN last_alert_times
                has == s \in DOMAIN last_alert_times'
            IN  (had # has \/ (had /\ has /\ last_alert_times'[s] # last_alert_times[s]))
                => /\ pc = "eval"
                   /\ matching_rules[rule_ix].Symbol = s
                   /\ has
                   /\ last_alert_times'[s] = current_timestamp
                   /\ pc' = "dispatch" ]_vars

\* C20: a marker that is absent or unreadable is read as 0, so that a rule
\* with a nonzero threshold for that kind, evaluated inside its window for
\* a symbol neither muted nor throttled, fires in that iteration: NoTick
\* when the tick marker is the one missing, NoQuote when only the quote
\* marker is checked and missing.
C20_AbsentMarkerFires ==
    (lastEval.result # "none" /\ lastEval.inWindow
        /\ ~lastEval.muted /\ ~lastEval.throttled)
    => LET rc      == EvalEntry.Rule
           noTick  == TickSec(rc) > 0 /\ lastEval.markT = Absent
           noQuote == QuoteSec(rc) > 0 /\ lastEval.markQ = Absent
       IN  /\ lastEval.markT = Absent => lastEval.tick = 0
           /\ lastEval.markQ = Absent => lastEval.quote = 0
           /\ (noTick \/ noQuote)
                 => /\ lastEval.result = "fired"
                    /\ last_alert_times[EvalEntry.Symbol] = current_timestamp
                    /\ alert.header = IF noTick THEN "No Tick Alert"
                                      ELSE IF TickSec(rc) > 0
                                              /\ current_timestamp > lastEval.tick + TickSec(rc)
                                      THEN "No Tick Alert"
                                      ELSE "No Quote Alert"

\* a rule that checks quotes fired on a symbol that has a tick marker and no
\* quote marker
C20_Witness ==
    /\ lastEval.result = "fired"
    /\ QuoteSec(EvalEntry.Rule) > 0
    /\ lastEval.markQ = Absent
    /\ lastEval.markT # Absent
    /\ alert.header = "No Quote Alert"

\* C21: a configuration value that is escaped and stored is the same string
\* again after the unescaping of a query, and after the unescaping the
\* monitor applies before it parses the row.
C21_EscapeRoundTrip ==
    fout.op = "escape"
    => /\ fout.queried = fin.value
       /\ fout.loaded = fin.value

\* C22: the process leaves on the operator's interruption only between
\* iterations: never at a rule that is still to be processed, never between
\* the recording of an alert and the last of its commands, never between a
\* test command and the removal of its marker.
C22_CleanCancellation ==
    [][ (pc # "exit" /\ pc' = "exit")
        => pc \in {"start", "poll", "sleep", "cooldown"} ]_vars

\* C23: an iteration that has an alert to dispatch completes, whatever the
\* alert commands do: from the dispatch of a command the loop reaches the
\* sleep that ends the iteration.
C23_DispatchCannotBlock == (pc = "dispatch") ~> (pc = "sleep")

\* C24: within an iteration, the rule repository, the alert commands and
\* the Active Rule Index change at two places only: the reload step when
\* it detects the reload signal, and the refresh step when the weekday
\* bitmap differs from the one last computed (which a reload forces); in an
\* iteration with neither, all three are left as they are.
C24_IndexFrame ==
    [][ (/\ pc \in {"poll", "testcmd", "reload", "rollover", "eval", "dispatch", "sleep"}
         /\ ~(pc = "reload" /\ check_config_change(current_timestamp, confchange))
         /\ ~(pc = "rollover" /\ last_check_weekday # current_weekday_bitmap))
        => /\ time_rules' = time_rules
           /\ alert_commands' = alert_commands
           /\ matching_rules' = matching_rules ]_vars

\* an iteration, not the first and on the day of the start, went through
\* with no reload although the configuration row had been replaced: the
\* signal was too old, and the repository is the one loaded at the start
C24_Witness ==
    /\ pc = "sleep"
    /\ run = 1 /\ loop_count > 1
    /\ reloaded = "no"
    /\ last_check_weekday = current_weekday_bitmap
    /\ IsoWeekday(current_timestamp) = IsoWeekday(current_timestamp - Elapsed(current_timestamp))
    /\ store = StoreEdited /\ confchange # Absent
    /\ time_rules = Loaded[StoreMain].time_rules
    /\ matching_rules = get_matching_rules(time_rules, current_weekday_bitmap).rules

\* C25: a rule whose End is not greater than its BegOffset, as HHMMSS
\* integers, is inside its window at no time of day: every evaluation of it
\* passes it over, probes nothing, dispatches nothing and leaves Alert State
\* as it was, in the evening and in the morning of a window that was meant
\* to run past midnight too.
C25_NoOvernightWindow ==
    (lastEval.result # "none" /\ End(EvalEntry.Rule) <= EvalEntry.Rule.BegOffset)
    => /\ lastEval.result = "window"
       /\ ~lastEval.inWindow
       /\ ~lastEval.probed
       /\ last_alert_times = lastEval.before
       /\ pc # "dispatch"

\* after midnight, before the End of the rule 22:00 to 06:00, the rule was
\* passed over although its symbol was stale, unmuted and unthrottled
C25_Witness ==
    /\ lastEval.result = "window"
    /\ Beg(EvalEntry.Rule) > End(EvalEntry.Rule)
    /\ current_time < End(EvalEntry.Rule)
    /\ ~lastEval.muted /\ ~lastEval.throttled
    /\ check_symbol_alerts(EvalEntry, current_timestamp, lastQ, lastT).header # ""

\* C26: any two alerts of one symbol in the whole run of the process are at
\* least MIN_ALERT_INTERVAL seconds apart, also when the loop was restarted
\* between them and Alert State was created anew: the cooldown before the
\* restart is not shorter than MIN_ALERT_INTERVAL.
C26_ThrottleAcrossRestarts ==
    /\ RESTART_COOLDOWN >= MIN_ALERT_INTERVAL
    /\ \A i \in 1..Len(alertLog) : \A j \in 1..Len(alertLog) :
          (i < j /\ alertLog[i].symbol = alertLog[j].symbol)
          => alertLog[j].at - alertLog[i].at >= MIN_ALERT_INTERVAL

\* a symbol alerted before an error of the loop and again in the first
\* iteration after the restart, with an empty Alert State
C26_Witness ==
    /\ lastEval.result = "fired"
    /\ lastEval.before = EmptyMap
    /\ \E i \in 1..Len(alertLog) :
          /\ alertLog[i].symbol = EvalEntry.Symbol
          /\ alertLog[i].run < run
          /\ alertLog[Len(alertLog)].run = run
          /\ alertLog[Len(alertLog)].symbol = EvalEntry.Symbol

\* C27: a rule evaluated inside its window for an unmuted symbol, with a
\* marker it checks stale, fires and is recorded when its symbol has no
\* alert yet in this run of the loop, and again at every poll MIN_ALERT_INTERVAL
\* seconds or more after the last alert of the symbol; the throttle skips
\* it only at polls less than MIN_ALERT_INTERVAL after that alert.
C27_ReAlerting ==
    (/\ lastEval.result # "none"
     /\ lastEval.inWindow /\ ~lastEval.muted
     /\ \/ Stale(TickSec(EvalEntry.Rule), current_timestamp, lastEval.markT)
        \/ Stale(QuoteSec(EvalEntry.Rule), current_timestamp, lastEval.markQ))
    => LET symbol == EvalEntry.Symbol
           had    == symbol \in DOMAIN lastEval.before
           due    == current_timestamp >= lastEval.before[symbol] + MIN_ALERT_INTERVAL
       IN  /\ lastEval.result = IF had /\ ~due THEN "skip" ELSE "fired"
           /\ lastEval.result = "fired"
                 => /\ last_alert_times[symbol] = current_timestamp
                    /\ alertLog[Len(alertLog)].symbol = symbol
                    /\ alertLog[Len(alertLog)].at = current_timestamp
                    /\ pc # "dispatch" => Len(sent) = Len(alert_commands)

\* the symbol alerts again at the poll exactly MIN_ALERT_INTERVAL seconds
\* after its last alert
C27_Witness ==
    /\ lastEval.result = "fired"
    /\ EvalEntry.Symbol \in DOMAIN lastEval.before
    /\ current_timestamp = lastEval.before[EvalEntry.Symbol] + MIN_ALERT_INTERVAL
    /\ Len(sent) >= 1

\* C28: once the editor has stored a configuration and written the reload
\* signal, the monitor reloads: an iteration whose time sample is later
\* than the timestamp of the signal works, from its reload step on, with what
\* the stored configuration loads to, however long the pass before it took.
C28_HotReload ==
    (/\ pc \in {"rollover", "eval", "dispatch", "sleep"}
     /\ confchange # Absent
     /\ confchange < current_timestamp)
    => /\ time_rules = Loaded[store].time_rules
       /\ alert_commands = Loaded[store].alert_commands

\* C29: for every symbol name of the rule set, the skip file that
\* TQALERT_MUTE creates is the one the monitor looks for, so that the symbol
\* is skipped once muted; after TQALERT_UNMUTE it is not skipped for a skip
\* file any more, and unmuting a symbol that is not muted leaves it unmuted.
C29_MuteRoundTrip ==
    fout.op = "mute"
    => /\ fout.skipMuted
       /\ ~fout.skipUnmuted
       /\ ~fout.skipNeverMuted

\* the weekday of the day the iteration's time of day was read on: the day
\* of the timestamp, or the day before when the time of day is a later one
\* than the timestamp's
TimeOfDayWeekday ==
    IF current_time <= TimeOfDay(current_timestamp)
    THEN IsoWeekday(current_timestamp)
    ELSE IsoWeekday(current_timestamp - DAY_SECONDS)

\* C30: the time of day, the timestamp and the weekday that an iteration
\* works with are those of one instant: the time of day is the one of the
\* timestamp and the weekday bitmap the one of the timestamp's day, so that
\* every rule evaluated is a rule of the day its time of day belongs to.
C30_ConsistentSample ==
    /\ pc \in {"reload", "rollover", "eval", "dispatch", "sleep"}
          => /\ current_time = TimeOfDay(current_timestamp)
             /\ current_weekday_bitmap
                   = get_weekday_bitmap(IsoWeekday(current_timestamp))
    /\ lastEval.result # "none"
          => MatchesDay(EvalEntry.Rule, get_weekday_bitmap(TimeOfDayWeekday))

====
